---- MODULE Spec2Model ----
(***************************************************************************)
(* Model of mobwrite.SimpleDiffer (src/js/simple_differ.js) and of the     *)
(* replay loop of mobwrite.shareCodeMirror.patchClientText                 *)
(* (src/js/mobwrite_codemirror_uncompressed.js).                           *)
(*                                                                         *)
(* Strings are sequences of one-character strings.  Array indexes are the  *)
(* 0-based indexes of the JavaScript source; element i of an array arr is  *)
(* arr[i + 1] here.  JavaScript numbers are integers plus the three        *)
(* non-finite values Infinity, -Infinity and NaN, which are encoded as     *)
(* integers far outside the range of every finite value of the model.      *)
(***************************************************************************)
EXTENDS Integers, Sequences, FiniteSets, TLC

VARIABLES base, text, chunks_, calls, threw, phase, simpleDiff

vars == <<base, text, chunks_, calls, threw, phase, simpleDiff>>

\* ------------------------------------------------------------------ bounds
MaxBaseLen == 2

MaxCalls == 3

TargetSlack == 2

MaxNegative == 1

BaseText == <<"a", "b", "c", "d", "e", "f">>

Texts == {<<>>, <<"x", "y">>}

\* ------------------------------------------------- JavaScript number model
Infinity == 1000000

NegInfinity == 0 - Infinity

NaN == 0 - 2000000

Null == 0 - 1

Undefined == <<>>

IsFinite(x) == x # Infinity /\ x # NegInfinity /\ x # NaN

JsAdd(x, y) ==
  IF x = NaN \/ y = NaN THEN NaN
  ELSE IF x = Infinity THEN (IF y = NegInfinity THEN NaN ELSE Infinity)
  ELSE IF x = NegInfinity THEN (IF y = Infinity THEN NaN ELSE NegInfinity)
  ELSE IF y = Infinity \/ y = NegInfinity THEN y
  ELSE x + y

JsNeg(x) ==
  IF x = NaN THEN NaN
  ELSE IF x = Infinity THEN NegInfinity
  ELSE IF x = NegInfinity THEN Infinity
  ELSE 0 - x

\* Subtraction in which Infinity - Infinity is Infinity instead of NaN.
JsSubNoNaN(x, y) ==
  IF x = Infinity /\ y = Infinity THEN Infinity ELSE JsAdd(x, JsNeg(y))

JsSub(x, y) == JsAdd(x, JsNeg(y))

JsGt(x, y) ==
  IF x = NaN \/ y = NaN THEN FALSE
  ELSE x > y

\* ------------------------------------------------- JavaScript library model
Min(x, y) == IF x < y THEN x ELSE y

Max(x, y) == IF x > y THEN x ELSE y

\* String.prototype.substr(start) and substr(start, length)
substr(str, start, length) ==
  LET n == Len(str)
      s == IF start < 0 THEN Max(n + start, 0) ELSE Min(start, n)
      l == Min(Max(length, 0), n - s)
  IN SubSeq(str, s + 1, s + l)

substrFrom(str, start) == substr(str, start, Len(str))

\* String.prototype.substring(start, end) for 0 <= start
substring(str, start, end) ==
  LET n == Len(str)
      a == Min(Max(start, 0), n)
      b == Min(Max(end, 0), n)
  IN SubSeq(str, Min(a, b) + 1, Max(a, b))

\* Array.prototype.splice(start, deleteCount, items...)
splice(arr, start, deleteCount, items) ==
  LET n == Len(arr)
      s == IF start < 0 THEN Max(n + start, 0) ELSE Min(start, n)
      d == Min(Max(deleteCount, 0), n - s)
  IN SubSeq(arr, 1, s) \o items \o SubSeq(arr, s + d + 1, n)

\* ------------------------------------------------------------ SimpleDiffer
\* The constructor: one copy chunk of unbounded length.
SimpleDiffer ==
  << [start |-> 0, length |-> Infinity, type |-> "copy"] >>

RECURSIVE findChunkLoop(_, _, _, _)
findChunkLoop(cs, targetCharIndex, i, currentCharIndex) ==
  IF i >= Len(cs) THEN Undefined
  ELSE IF JsGt(JsAdd(currentCharIndex, cs[i + 1].length), targetCharIndex)
       THEN <<i, JsSub(targetCharIndex, currentCharIndex)>>
       ELSE findChunkLoop(cs, targetCharIndex, i + 1,
                          JsAdd(currentCharIndex, cs[i + 1].length))

findChunk_(cs, targetCharIndex) == findChunkLoop(cs, targetCharIndex, 0, 0)

\* splitChunk_ leaving the whole text in the first half of an insert chunk.
splitChunkTextKept(cs, chunkIndex, splitAt) ==
  LET chunk == cs[chunkIndex + 1]
      newChunk ==
        IF chunk.type = "insert"
        THEN [length |-> JsSub(chunk.length, splitAt), type |-> chunk.type,
              text |-> substrFrom(chunk.text, splitAt)]
        ELSE [length |-> JsSub(chunk.length, splitAt), type |-> chunk.type,
              start |-> JsAdd(chunk.start, splitAt)]
      shortened == [chunk EXCEPT !.length = splitAt]
  IN splice([cs EXCEPT ![chunkIndex + 1] = shortened],
            chunkIndex + 1, 0, <<newChunk>>)

\* splitChunk_ splicing in both halves next to the chunk that was split.
splitChunkKeepWhole(cs, chunkIndex, splitAt) ==
  LET chunk == cs[chunkIndex + 1]
      newChunk ==
        IF chunk.type = "insert"
        THEN [length |-> JsSub(chunk.length, splitAt), type |-> chunk.type,
              text |-> substrFrom(chunk.text, splitAt)]
        ELSE [length |-> JsSub(chunk.length, splitAt), type |-> chunk.type,
              start |-> JsAdd(chunk.start, splitAt)]
      shortened ==
        IF chunk.type = "insert"
        THEN [chunk EXCEPT !.length = splitAt,
                           !.text = substr(chunk.text, 0, splitAt)]
        ELSE [chunk EXCEPT !.length = splitAt]
  IN splice([cs EXCEPT ![chunkIndex + 1] = shortened],
            chunkIndex + 1, 0, <<shortened, newChunk>>)

\* splitChunk_ with the second half of a copy chunk starting where the
\* first half starts.
splitChunkSameStart(cs, chunkIndex, splitAt) ==
  LET chunk == cs[chunkIndex + 1]
      newChunk ==
        IF chunk.type = "insert"
        THEN [length |-> JsSub(chunk.length, splitAt), type |-> chunk.type,
              text |-> substrFrom(chunk.text, splitAt)]
        ELSE [length |-> JsSub(chunk.length, splitAt), type |-> chunk.type,
              start |-> chunk.start]
      shortened ==
        IF chunk.type = "insert"
        THEN [chunk EXCEPT !.length = splitAt,
                           !.text = substr(chunk.text, 0, splitAt)]
        ELSE [chunk EXCEPT !.length = splitAt]
  IN splice([cs EXCEPT ![chunkIndex + 1] = shortened],
            chunkIndex + 1, 0, <<newChunk>>)

splitChunk_(cs, chunkIndex, splitAt) ==
  LET chunk == cs[chunkIndex + 1]
      newChunk ==
        IF chunk.type = "insert"
        THEN [length |-> JsSub(chunk.length, splitAt), type |-> chunk.type,
              text |-> substrFrom(chunk.text, splitAt)]
        ELSE [length |-> JsSub(chunk.length, splitAt), type |-> chunk.type,
              start |-> JsAdd(chunk.start, splitAt)]
      shortened ==
        IF chunk.type = "insert"
        THEN [chunk EXCEPT !.length = splitAt,
                           !.text = substr(chunk.text, 0, splitAt)]
        ELSE [chunk EXCEPT !.length = splitAt]
  IN splice([cs EXCEPT ![chunkIndex + 1] = shortened],
            chunkIndex + 1, 0, <<newChunk>>)

\* applyInsert with the new chunk put in front of the chunk that was split.
applyInsertBeforeSplit(cs, index, t) ==
  LET x == findChunk_(cs, index) IN
  IF x = Undefined THEN [chunks |-> cs, threw |-> TRUE]
  ELSE LET chunkIndex == x[1]
           splitOffset == x[2]
           afterSplit == splitChunk_(cs, chunkIndex, splitOffset)
           insertAtIndex == chunkIndex
           newChunk == [type |-> "insert", text |-> t, length |-> Len(t)]
       IN [chunks |-> splice(afterSplit, insertAtIndex, 0, <<newChunk>>),
           threw |-> FALSE]

\* applyDelete without the early return for an empty span.
applyDeleteUnguarded(cs, startIndex, endIndex) ==
  LET start == findChunk_(cs, startIndex) IN
  IF start = Undefined THEN [chunks |-> cs, threw |-> TRUE]
  ELSE LET startChunkIndex == start[1]
           startOffset == start[2]
           afterStart == splitChunk_(cs, startChunkIndex, startOffset)
           deleteStartIndex == startChunkIndex + 1
           end == findChunk_(afterStart, endIndex)
       IN
  IF end = Undefined THEN [chunks |-> afterStart, threw |-> TRUE]
  ELSE LET endChunkIndex == end[1]
           endOffset == end[2]
           afterEnd == splitChunk_(afterStart, endChunkIndex, endOffset)
           deleteEndIndex == endChunkIndex + 1
       IN [chunks |-> splice(afterEnd, deleteStartIndex,
                             deleteEndIndex - deleteStartIndex, <<>>),
           threw |-> FALSE]

\* applyDelete removing one chunk too many, through deleteEndIndex itself.
applyDeleteThroughEnd(cs, startIndex, endIndex) ==
  IF startIndex = endIndex THEN [chunks |-> cs, threw |-> FALSE]
  ELSE LET start == findChunk_(cs, startIndex) IN
  IF start = Undefined THEN [chunks |-> cs, threw |-> TRUE]
  ELSE LET startChunkIndex == start[1]
           startOffset == start[2]
           afterStart == splitChunk_(cs, startChunkIndex, startOffset)
           deleteStartIndex == startChunkIndex + 1
           end == findChunk_(afterStart, endIndex)
       IN
  IF end = Undefined THEN [chunks |-> afterStart, threw |-> TRUE]
  ELSE LET endChunkIndex == end[1]
           endOffset == end[2]
           afterEnd == splitChunk_(afterStart, endChunkIndex, endOffset)
           deleteEndIndex == endChunkIndex + 1
       IN [chunks |-> splice(afterEnd, deleteStartIndex,
                             deleteEndIndex - deleteStartIndex + 1, <<>>),
           threw |-> FALSE]

\* applyInsert and applyDelete give the chunk sequence after the call and
\* whether the call ended in a TypeError (indexing the undefined result of
\* findChunk_), with the mutations made before the error kept.
applyInsert(cs, index, t) ==
  LET x == findChunk_(cs, index) IN
  IF x = Undefined THEN [chunks |-> cs, threw |-> TRUE]
  ELSE LET chunkIndex == x[1]
           splitOffset == x[2]
           afterSplit == splitChunk_(cs, chunkIndex, splitOffset)
           insertAtIndex == chunkIndex + 1
           newChunk == [type |-> "insert", text |-> t, length |-> Len(t)]
       IN [chunks |-> splice(afterSplit, insertAtIndex, 0, <<newChunk>>),
           threw |-> FALSE]

applyDelete(cs, startIndex, endIndex) ==
  IF startIndex = endIndex THEN [chunks |-> cs, threw |-> FALSE]
  ELSE LET start == findChunk_(cs, startIndex) IN
  IF start = Undefined THEN [chunks |-> cs, threw |-> TRUE]
  ELSE LET startChunkIndex == start[1]
           startOffset == start[2]
           afterStart == splitChunk_(cs, startChunkIndex, startOffset)
           deleteStartIndex == startChunkIndex + 1
           end == findChunk_(afterStart, endIndex)
       IN
  IF end = Undefined THEN [chunks |-> afterStart, threw |-> TRUE]
  ELSE LET endChunkIndex == end[1]
           endOffset == end[2]
           afterEnd == splitChunk_(afterStart, endChunkIndex, endOffset)
           deleteEndIndex == endChunkIndex + 1
       IN [chunks |-> splice(afterEnd, deleteStartIndex,
                             deleteEndIndex - deleteStartIndex, <<>>),
           threw |-> FALSE]

\* prevInsert is the index of the chunk the variable refers to, or Null.
RECURSIVE mergeInsertsLoop(_, _, _)
mergeInsertsLoop(cs, i, prevInsert) ==
  IF ~(i < Len(cs)) THEN cs
  ELSE LET chunk == cs[i + 1] IN
    IF chunk.type = "insert"
    THEN IF chunk.text = <<>>
         THEN mergeInsertsLoop(splice(cs, i, 1, <<>>), i + 1, prevInsert)
         ELSE IF prevInsert # Null
         THEN mergeInsertsLoop(
                splice([cs EXCEPT ![prevInsert + 1].text = @ \o chunk.text,
                                  ![prevInsert + 1].length =
                                      JsAdd(@, chunk.length)],
                       i, 1, <<>>),
                i, prevInsert)
         ELSE mergeInsertsLoop(cs, i + 1, i)
    ELSE mergeInsertsLoop(cs, i + 1, Null)

mergeInserts_(cs) == mergeInsertsLoop(cs, 0, Null)

\* The first loop of getSimpleDiff with the end of a delete counted as an
\* inclusive offset, one past the gap.
RECURSIVE emitLoopInclusiveEnd(_, _, _, _)
emitLoopInclusiveEnd(cs, i, lastCopyCharIndex, sd) ==
  IF ~(i >= 0) THEN sd
  ELSE LET chunk == cs[i + 1] IN
    IF chunk.type = "copy"
    THEN LET chunkEnd == JsAdd(chunk.start, chunk.length)
             deletedChars == JsSub(lastCopyCharIndex, chunkEnd)
         IN emitLoopInclusiveEnd(cs, i - 1, chunk.start,
                     IF JsGt(deletedChars, 0)
                     THEN Append(sd, [type |-> "delete", start |-> chunkEnd,
                                      end |-> JsAdd(JsAdd(chunkEnd,
                                                          deletedChars), 1)])
                     ELSE sd)
    ELSE emitLoopInclusiveEnd(cs, i - 1, lastCopyCharIndex,
                  Append(sd, [type |-> "insert", start |-> lastCopyCharIndex,
                              text |-> chunk.text]))

\* First loop of getSimpleDiff: one action per insert chunk and per gap
\* between copy chunks, walking the chunks from last to first.
RECURSIVE emitLoop(_, _, _, _)
emitLoop(cs, i, lastCopyCharIndex, sd) ==
  IF ~(i >= 0) THEN sd
  ELSE LET chunk == cs[i + 1] IN
    IF chunk.type = "copy"
    THEN LET chunkEnd == JsAdd(chunk.start, chunk.length)
             deletedChars == JsSub(lastCopyCharIndex, chunkEnd)
         IN emitLoop(cs, i - 1, chunk.start,
                     IF JsGt(deletedChars, 0)
                     THEN Append(sd, [type |-> "delete", start |-> chunkEnd,
                                      end |-> JsAdd(chunkEnd, deletedChars)])
                     ELSE sd)
    ELSE emitLoop(cs, i - 1, lastCopyCharIndex,
                  Append(sd, [type |-> "insert", start |-> lastCopyCharIndex,
                              text |-> chunk.text]))

\* The first loop of getSimpleDiff with its result in first-to-last order.
emitActionsForward(cs) ==
  LET sd == emitLoop(cs, Len(cs) - 1, Infinity, <<>>)
  IN [k \in 1 .. Len(sd) |-> sd[Len(sd) + 1 - k]]

emitActions(cs) == emitLoop(cs, Len(cs) - 1, Infinity, <<>>)

\* The second loop of getSimpleDiff comparing the wrong ends of the deletes.
RECURSIVE mergeDeletesLoopWrongEnds(_, _, _)
mergeDeletesLoopWrongEnds(sd, i, prevDelete) ==
  IF ~(i >= 0) THEN sd
  ELSE LET action == sd[i + 1] IN
    IF action.type = "delete"
    THEN IF prevDelete # Null /\ sd[prevDelete + 1].start = action.end
         THEN mergeDeletesLoopWrongEnds(
                splice([sd EXCEPT ![prevDelete + 1].end = action.end],
                       i, 1, <<>>),
                i - 1, prevDelete - 1)
         ELSE mergeDeletesLoopWrongEnds(sd, i - 1, i)
    ELSE mergeDeletesLoopWrongEnds(sd, i - 1, Null)

\* The second loop of getSimpleDiff removing a touching delete without
\* widening the delete it touches.
RECURSIVE mergeDeletesLoopNoExtend(_, _, _)
mergeDeletesLoopNoExtend(sd, i, prevDelete) ==
  IF ~(i >= 0) THEN sd
  ELSE LET action == sd[i + 1] IN
    IF action.type = "delete"
    THEN IF prevDelete # Null /\ sd[prevDelete + 1].end = action.start
         THEN mergeDeletesLoopNoExtend(splice(sd, i, 1, <<>>),
                                       i - 1, prevDelete - 1)
         ELSE mergeDeletesLoopNoExtend(sd, i - 1, i)
    ELSE mergeDeletesLoopNoExtend(sd, i - 1, Null)

\* Second loop of getSimpleDiff: prevDelete is the index of the action the
\* variable refers to, or Null.
RECURSIVE mergeDeletesLoop(_, _, _)
mergeDeletesLoop(sd, i, prevDelete) ==
  IF ~(i >= 0) THEN sd
  ELSE LET action == sd[i + 1] IN
    IF action.type = "delete"
    THEN IF prevDelete # Null /\ sd[prevDelete + 1].end = action.start
         THEN mergeDeletesLoop(
                splice([sd EXCEPT ![prevDelete + 1].end = action.end],
                       i, 1, <<>>),
                i - 1, prevDelete - 1)
         ELSE mergeDeletesLoop(sd, i - 1, i)
    ELSE mergeDeletesLoop(sd, i - 1, Null)

\* getSimpleDiff without its second loop.
mergeDeletesSkipped(sd) == sd

mergeDeletes(sd) == mergeDeletesLoop(sd, Len(sd) - 1, Null)

getSimpleDiff(cs) == mergeDeletes(emitActions(mergeInserts_(cs)))

\* ------------------------------------------------- callers of SimpleDiffer
\* patch_apply_ edits the text with substring() next to each recorder call.
textInsert(str, index, t) ==
  substring(str, 0, index) \o t \o substring(str, index, Len(str))

textDelete(str, del_start, del_end) ==
  substring(str, 0, del_start) \o substring(str, del_end, Len(str))

\* patchClientText replays the mutations in list order with replaceRange.
RECURSIVE replayLoop(_, _, _)
replayLoop(str, sd, i) ==
  IF i >= Len(sd) THEN str
  ELSE LET mutation == sd[i + 1] IN
    IF mutation.type = "insert"
    THEN replayLoop(textInsert(str, mutation.start, mutation.text), sd, i + 1)
    ELSE replayLoop(textDelete(str, mutation.start, mutation.end), sd, i + 1)

patchClientText(str, sd) == replayLoop(str, sd, 0)

\* ------------------------------------------------------------ state machine
\* The recorder never reads the base text and the callers only cut and join
\* it by offset, so the base texts are the prefixes of a text of distinct
\* characters: every offset of the base is then told apart in the result.
BaseTexts == {SubSeq(BaseText, 1, n) : n \in 0 .. MaxBaseLen}

insertCall(index, t) == [op |-> "insert", a |-> index, b |-> index, text |-> t]

deleteCall(startIndex, endIndex) ==
  [op |-> "delete", a |-> startIndex, b |-> endIndex, text |-> <<>>]

Init ==
  /\ base \in BaseTexts
  /\ text = base
  /\ chunks_ = SimpleDiffer
  /\ calls = <<>>
  /\ threw = FALSE
  /\ phase = "recording"
  /\ simpleDiff = <<>>

CanRecord == phase = "recording" /\ ~threw /\ Len(calls) < MaxCalls

\* patch_apply_ records an insertion at a valid offset of the current text.
ApplyInsert ==
  /\ CanRecord
  /\ \E index \in 0 .. Len(text), t \in Texts :
       LET r == applyInsert(chunks_, index, t) IN
       /\ chunks_' = r.chunks
       /\ threw' = r.threw
       /\ text' = textInsert(text, index, t)
       /\ calls' = Append(calls, insertCall(index, t))
  /\ UNCHANGED <<base, phase, simpleDiff>>

\* patch_apply_ records a deletion of a valid span of the current text.
ApplyDelete ==
  /\ CanRecord
  /\ \E startIndex \in 0 .. Len(text) :
       \E endIndex \in startIndex .. Len(text) :
         LET r == applyDelete(chunks_, startIndex, endIndex) IN
         /\ chunks_' = r.chunks
         /\ threw' = r.threw
         /\ text' = textDelete(text, startIndex, endIndex)
         /\ calls' = Append(calls, deleteCall(startIndex, endIndex))
  /\ UNCHANGED <<base, phase, simpleDiff>>

\* patchClientText asks for the simple diff once, after the edits.
GetSimpleDiff ==
  /\ phase = "recording"
  /\ ~threw
  /\ chunks_' = mergeInserts_(chunks_)
  /\ simpleDiff' = getSimpleDiff(chunks_)
  /\ phase' = "extracted"
  /\ UNCHANGED <<base, text, calls, threw>>

Next == ApplyInsert \/ ApplyDelete \/ GetSimpleDiff

Spec == Init /\ [][Next]_vars

\* A caller that breaks the contract: a negative insert index.
ApplyInsertNegative ==
  /\ CanRecord
  /\ \E index \in (0 - MaxNegative) .. (0 - 1), t \in Texts :
       LET r == applyInsert(chunks_, index, t) IN
       /\ chunks_' = r.chunks
       /\ threw' = r.threw
       /\ calls' = Append(calls, insertCall(index, t))
  /\ UNCHANGED <<base, text, phase, simpleDiff>>

\* A caller that breaks the contract: a negative start or start > end.
ApplyDeleteInvalid ==
  /\ CanRecord
  /\ \E startIndex \in (0 - MaxNegative) .. Len(text) :
       \E endIndex \in (0 - MaxNegative) .. Len(text) :
         /\ startIndex < 0 \/ startIndex > endIndex
         /\ LET r == applyDelete(chunks_, startIndex, endIndex) IN
            /\ chunks_' = r.chunks
            /\ threw' = r.threw
            /\ calls' = Append(calls, deleteCall(startIndex, endIndex))
  /\ UNCHANGED <<base, text, phase, simpleDiff>>

NextUnchecked ==
  ApplyInsert \/ ApplyDelete \/ GetSimpleDiff
    \/ ApplyInsertNegative \/ ApplyDeleteInvalid

SpecUnchecked == Init /\ [][NextUnchecked]_vars

\* ------------------------------------------------------------------ claims
Extracted == phase = "extracted"

ActionIndexes == 1 .. Len(simpleDiff)

IsDelete(k) == simpleDiff[k].type = "delete"

IsInsert(k) == simpleDiff[k].type = "insert"

\* The span of the original text an action covers; an insert is a point.
SpanLo(k) == simpleDiff[k].start

SpanHi(k) == IF IsDelete(k) THEN simpleDiff[k].end ELSE simpleDiff[k].start

SpansOverlap(j, k) == SpanLo(j) < SpanHi(k) /\ SpanLo(k) < SpanHi(j)

DeletesTouch(j, k) ==
  /\ IsDelete(j)
  /\ IsDelete(k)
  /\ simpleDiff[j].end = simpleDiff[k].start

\* C1: replaying the returned list in list order on the base text gives the
\* text that the same edits give when made directly.
C1_RoundTrip == Extracted => patchClientText(base, simpleDiff) = text

\* C2 (as stated): over all pairs of returned actions the spans do not
\* overlap, and no delete ends where another delete starts.
C2_NoOverlapNoTouch ==
  Extracted =>
    \A j \in ActionIndexes : \A k \in ActionIndexes :
      j # k => ~SpansOverlap(j, k) /\ ~DeletesTouch(j, k)

\* C2 (amended): over all pairs of returned actions the spans do not
\* overlap, and a delete ends where another delete starts only when an
\* insert at that very offset lies between the two in the list.
C2_NoOverlapTouchOnlyAcrossInsert ==
  Extracted =>
    \A j \in ActionIndexes : \A k \in ActionIndexes :
      j # k =>
        /\ ~SpansOverlap(j, k)
        /\ DeletesTouch(j, k) =>
             /\ k < j
             /\ \E m \in (k + 1) .. (j - 1) :
                  IsInsert(m) /\ simpleDiff[m].start = simpleDiff[j].end

C2_Witness ==
  /\ Extracted
  /\ \E j \in ActionIndexes : \E k \in ActionIndexes : DeletesTouch(j, k)

\* C3: no insert action of the returned list has empty text.
C3_NoEmptyInsert ==
  Extracted => \A k \in ActionIndexes : IsInsert(k) => simpleDiff[k].text # <<>>

\* C4: two deletes that are neighbours in the returned list never touch:
\* the later entry does not end where the earlier entry starts.
C4_NeighbourDeletesApart ==
  Extracted =>
    \A k \in ActionIndexes :
      (k + 1 \in ActionIndexes /\ IsDelete(k) /\ IsDelete(k + 1)) =>
        simpleDiff[k + 1].end # simpleDiff[k].start

\* A run of touching deletes was emitted and merged into one entry.
C4_Witness ==
  /\ Extracted
  /\ Len(emitActions(chunks_)) > Len(simpleDiff)
  /\ \E k \in ActionIndexes : IsDelete(k)

\* C5: the returned list runs from the end of the original text to its
\* beginning: starts never increase along the list, and a delete ends at or
\* before the start of the entry in front of it.
C5_EndToBeginning ==
  Extracted =>
    \A k \in ActionIndexes :
      k + 1 \in ActionIndexes =>
        /\ simpleDiff[k + 1].start <= simpleDiff[k].start
        /\ IsDelete(k + 1) => simpleDiff[k + 1].end <= simpleDiff[k].start

C5_Witness ==
  /\ Extracted
  /\ Len(simpleDiff) >= 3
  /\ \E k \in ActionIndexes : IsDelete(k)
  /\ \E k \in ActionIndexes : IsInsert(k)
  /\ simpleDiff[Len(simpleDiff)].start < simpleDiff[1].start

LastCall == calls[Len(calls)]

CallIsInvalid(c) ==
  \/ c.op = "insert" /\ c.a < 0
  \/ c.op = "delete" /\ (c.a < 0 \/ c.a > c.b)

\* C6: a call with a negative insert index, a negative delete start or a
\* delete start above its end ends in an error and leaves the chunks as
\* they were.
C6_InvalidCallFailsFast ==
  [][(Len(calls') = Len(calls) + 1 /\ CallIsInvalid(calls'[Len(calls')]))
       => (threw' /\ chunks_' = chunks_)]_vars

\* C7: a delete call whose start equals its end leaves the chunk sequence
\* exactly as it was.
C7_EmptyDeleteKeepsChunks ==
  [][(Len(calls') = Len(calls) + 1
        /\ calls'[Len(calls')].op = "delete"
        /\ calls'[Len(calls')].a = calls'[Len(calls')].b)
       => chunks_' = chunks_]_vars

C7_Witness ==
  /\ Len(calls) >= 2
  /\ LastCall.op = "delete"
  /\ LastCall.a = LastCall.b
  /\ LastCall.a > 0
  /\ \E i \in 1 .. Len(chunks_) : chunks_[i].type = "insert"

C8_Case ==
  /\ Extracted
  /\ Len(calls) = 1
  /\ calls[1].op = "insert"
  /\ calls[1].text # <<>>

\* C8: one insert of non-empty text t at offset k on a fresh recorder
\* returns exactly the list with the one action insert {start: k, text: t}.
C8_SingleInsert ==
  C8_Case =>
    simpleDiff = << [type |-> "insert", start |-> calls[1].a,
                     text |-> calls[1].text] >>

C8_Witness == C8_Case /\ calls[1].a = Len(base) /\ Len(base) > 0

C9_Case ==
  /\ Extracted
  /\ Len(calls) = 2
  /\ calls[1].op = "delete"
  /\ calls[2].op = "delete"
  /\ calls[1].a < calls[1].b
  /\ calls[2].a = calls[1].a
  /\ calls[2].a < calls[2].b

\* C9: deleting [a, b) and then the span that was [b, c) of the original
\* text, on a fresh recorder, returns exactly the one action
\* delete {start: a, end: c}.
C9_DeleteMerge ==
  C9_Case =>
    simpleDiff = << [type |-> "delete", start |-> calls[1].a,
                     end |-> calls[1].b + (calls[2].b - calls[2].a)] >>

C9_Witness ==
  C9_Case /\ calls[1].b + (calls[2].b - calls[2].a) = Len(base)

C10_Case ==
  /\ Extracted
  /\ Len(calls) = 2
  /\ calls[1].op = "insert"
  /\ calls[1].text # <<>>
  /\ calls[2].op = "delete"
  /\ calls[2].a < calls[2].b
  /\ calls[2].b <= calls[1].a

\* C10: an insert of non-empty text t at offset i followed by a delete of
\* [a, b) with a < b <= i, on a fresh recorder, returns exactly
\* insert {start: i, text: t} and then delete {start: a, end: b}.
C10_InsertThenEarlierDelete ==
  C10_Case =>
    simpleDiff = << [type |-> "insert", start |-> calls[1].a,
                     text |-> calls[1].text],
                    [type |-> "delete", start |-> calls[2].a,
                     end |-> calls[2].b] >>

C10_Witness == C10_Case /\ calls[2].b = calls[1].a /\ calls[2].a > 0

Recording == phase = "recording"

ChunkIndexes == 1 .. Len(chunks_)

IsCopy(c) == c.type = "copy"

\* The text a chunk stands for: a copy chunk the span of the base text from
\* start of length length (to the end when unbounded), an insert its text.
ChunkText(c) ==
  IF IsCopy(c)
  THEN substring(base, c.start,
                 IF c.length = Infinity THEN Len(base) ELSE c.start + c.length)
  ELSE c.text

RECURSIVE ChunksText(_)
ChunksText(cs) ==
  IF cs = <<>> THEN <<>> ELSE ChunkText(Head(cs)) \o ChunksText(Tail(cs))

\* C12: after every recorded call the chunks, read in order, spell the text
\* that the same calls give when made directly on the base text.
C12_ChunksSpellText == Recording => ChunksText(chunks_) = text

C12_Witness ==
  /\ Recording
  /\ Len(calls) = MaxCalls
  /\ \E i \in 1 .. Len(calls) : calls[i].op = "insert" /\ calls[i].text # <<>>
  /\ \E i \in 1 .. Len(calls) : calls[i].op = "delete" /\ calls[i].a < calls[i].b
  /\ Len(text) > 0

\* C13: the chunk sequence never holds a chunk of length zero, copy or
\* insert.
C13_NoZeroLengthChunk ==
  \A i \in ChunkIndexes :
    /\ chunks_[i].length # 0
    /\ ~IsCopy(chunks_[i]) => chunks_[i].text # <<>>

\* What coalescing is to give: each run of neighbouring insert chunks made
\* one chunk with the texts joined in order, runs of empty text dropped.
RECURSIVE Coalesced(_)
Coalesced(cs) ==
  IF cs = <<>> THEN <<>>
  ELSE LET rest == Coalesced(Tail(cs))
           c == Head(cs)
       IN IF IsCopy(c) THEN <<c>> \o rest
          ELSE IF rest # <<>> /\ ~IsCopy(Head(rest))
          THEN <<[type |-> "insert", text |-> c.text \o Head(rest).text,
                  length |-> Len(c.text) + Len(Head(rest).text)]>>
               \o Tail(rest)
          ELSE IF c.text = <<>> THEN rest
          ELSE <<[type |-> "insert", text |-> c.text,
                  length |-> Len(c.text)]>> \o rest

MergedWell(before, after) ==
  /\ \A i \in 1 .. Len(after) :
       ~IsCopy(after[i]) =>
         /\ after[i].text # <<>>
         /\ after[i].length = Len(after[i].text)
         /\ i < Len(after) => IsCopy(after[i + 1])
  /\ after = Coalesced(before)

\* C14: mergeInserts_ leaves no insert chunk with empty text and no two
\* neighbouring insert chunks, each run of insert chunks having become one
\* chunk with the texts joined in order and a length equal to its text's.
C14_InsertsCoalesced ==
  [][(Recording /\ phase' = "extracted") => MergedWell(chunks_, chunks_')]_vars

\* C15 (as stated): after n recorded calls there are at most 2 * n chunks.
C15_AtMostTwicePerCall ==
  (Recording /\ Len(calls) >= 1) => Len(chunks_) <= 2 * Len(calls)

\* C15 (amended): after n recorded calls there are at most 2 * n + 1 chunks.
C15_AtMostTwicePerCallPlusOne == Recording => Len(chunks_) <= 2 * Len(calls) + 1

C15_Witness ==
  /\ Recording
  /\ Len(calls) = MaxCalls
  /\ Len(chunks_) = 2 * Len(calls) + 1

Targets == 0 .. (Len(text) + TargetSlack)

\* C16: the last chunk is always a copy chunk of unbounded length, and
\* findChunk_ answers every target offset from 0 up with a chunk index and
\* an offset from 0 to below that chunk's length.
C16_LocateSucceeds ==
  Recording =>
    /\ IsCopy(chunks_[Len(chunks_)])
    /\ chunks_[Len(chunks_)].length = Infinity
    /\ \A target \in Targets :
         LET x == findChunk_(chunks_, target) IN
         /\ x # Undefined
         /\ x[1] >= 0
         /\ x[1] < Len(chunks_)
         /\ x[2] >= 0
         /\ x[2] < chunks_[x[1] + 1].length

\* A delete has reached up to the unbounded chunk and zero-length chunks
\* lie in the way of the walk.
C16_Witness ==
  /\ Recording
  /\ Len(chunks_) >= 3
  /\ \E i \in 1 .. Len(calls) :
       calls[i].op = "delete" /\ calls[i].a < calls[i].b
  /\ Len(text) = 0
  /\ Len(base) > 0

DeletedOffsets ==
  UNION {simpleDiff[k].start .. (simpleDiff[k].end - 1) :
           k \in {j \in ActionIndexes : IsDelete(j)}}

CoveredByCopy(o, cs) ==
  \E i \in 1 .. Len(cs) :
    /\ IsCopy(cs[i])
    /\ cs[i].start <= o
    /\ o < JsAdd(cs[i].start, cs[i].length)

TextChars == {text[i] : i \in 1 .. Len(text)}

CopyChunks(cs) == SelectSeq(cs, IsCopy)

\* C17: the deletes of the returned list cover exactly the offsets of the
\* original text that no copy chunk covers, which are the offsets whose
\* characters the recorded edits removed; and mergeInserts_ leaves the copy
\* chunks as they were.
C17_DeletesAreTheGaps ==
  /\ [](Extracted =>
         /\ DeletedOffsets =
              {o \in 0 .. (chunks_[Len(chunks_)].start - 1) :
                 ~CoveredByCopy(o, chunks_)}
         /\ DeletedOffsets =
              {o \in 0 .. (Len(base) - 1) : base[o + 1] \notin TextChars})
  /\ [][(Recording /\ phase' = "extracted")
          => CopyChunks(chunks_') = CopyChunks(chunks_)]_vars

C17_Witness ==
  /\ Extracted
  /\ Cardinality(DeletedOffsets) >= 1
  /\ \E k \in ActionIndexes : IsInsert(k)
  /\ Len(text) > Len(base) - Cardinality(DeletedOffsets)
  /\ \E o \in 0 .. (Len(base) - 1) : o \notin DeletedOffsets

\* C18: copy chunks stay in order and apart: a copy chunk ends at or before
\* the start of every copy chunk after it, and starts and lengths are never
\* negative.
C18_CopyChunksOrdered ==
  Recording =>
    \A i \in ChunkIndexes :
      IsCopy(chunks_[i]) =>
        /\ chunks_[i].start >= 0
        /\ chunks_[i].length >= 0
        /\ \A j \in ChunkIndexes :
             (i < j /\ IsCopy(chunks_[j])) =>
               JsAdd(chunks_[i].start, chunks_[i].length) <= chunks_[j].start

C18_Witness ==
  /\ Recording
  /\ Cardinality({i \in ChunkIndexes : IsCopy(chunks_[i])}) >= 4
  /\ \E i \in ChunkIndexes : IsCopy(chunks_[i]) /\ chunks_[i].length = 0
  /\ \E i \in ChunkIndexes : IsCopy(chunks_[i]) /\ chunks_[i].start > 1

\* C19: every returned action has finite offsets: a delete has
\* 0 <= start < end and ends at or before the start of the unbounded chunk,
\* an insert has a start from 0 up.
C19_NoSentinelInOutput ==
  Extracted =>
    \A k \in ActionIndexes :
      /\ IsFinite(simpleDiff[k].start)
      /\ simpleDiff[k].start >= 0
      /\ IsDelete(k) =>
           /\ IsFinite(simpleDiff[k].end)
           /\ simpleDiff[k].start < simpleDiff[k].end
           /\ simpleDiff[k].end <= chunks_[Len(chunks_)].start

\* An insert at the end of the original text and a delete reaching it.
C19_Witness ==
  /\ Extracted
  /\ Len(base) > 0
  /\ \E k \in ActionIndexes : IsInsert(k) /\ simpleDiff[k].start = Len(base)
  /\ \E k \in ActionIndexes : IsDelete(k) /\ simpleDiff[k].end = Len(base)

====
